---- MODULE Spec2Model ----
(***************************************************************************)
(* Model of the account lookup of src/src/components/Dashboard.tsx:        *)
(* the component state of Dashboard, handleSearch and the asynchronous     *)
(* fetchAccountData, one action per event-loop task (a callback together   *)
(* with the continuation it resumes, run to completion up to the next      *)
(* await).                                                                 *)
(***************************************************************************)
EXTENDS Integers, Sequences, FiniteSets, TLC

(* ---- bounds of the model ---- *)
MaxSubmits == 2          \* submit events of the search form

(* ---- program constants ---- *)
TimeoutMs == 10000       \* the delay of both timers (lines 33 and 40)

Null == [null |-> TRUE]      \* null, the absent account
Usernames == {"", "alice", "bob"}
ProviderFaults == {"", "Network error"}
StorageFaults == {"QuotaExceededError"}
InsertFaults == {"insert failed"}
SecNames == {"rewards", "delegations", "transactions"}

VARIABLES username, accountData, rewardHistory, delegations, walletHistory,
          loading, error, localStorage, searches, calls, submits, now

present == <<accountData, rewardHistory, delegations, walletHistory>>
vars == <<username, accountData, rewardHistory, delegations, walletHistory,
          loading, error, localStorage, searches, calls, submits, now>>

(* ---- the data provider (../lib/hive): what it holds for a user ---- *)
AccountOf(u) == [name |-> u, balance |-> "1.000 HIVE"]
RewardsOf(u) == << [op |-> "author_reward", who |-> u, n |-> 1],
                   [op |-> "curation_reward", who |-> u, n |-> 2] >>
DelegationsOf(u) == IF u = "alice" THEN << >>
                    ELSE << [delegator |-> u, delegatee |-> "carol"] >>
WalletOf(u) == << [op |-> "transfer", who |-> u] >>
SecData(k, u) == CASE k = "rewards" -> RewardsOf(u)
                   [] k = "delegations" -> DelegationsOf(u)
                   [] k = "transactions" -> WalletOf(u)

(* ---- conversions ---- *)
TruthyAny(s) == TRUE     \* variant: the test of line 89 left out
Truthy(s) == s # ""
ToISOString(t) == <<"iso", t>>
JSONStringify(v) == <<"json", v>>
CacheKeyBare(u) == u     \* variant: the key without its prefix
CacheKey(u) == "hive_" \o u
CacheEntry(c, t) == [accountInfo |-> c.accountInfo, rewards |-> c.res["rewards"],
                     delegations |-> c.res["delegations"],
                     transactions |-> c.res["transactions"], timestamp |-> t]
AuditRow(c, t) == [username |-> c.searchUsername, timestamp |-> ToISOString(t),
                   account_data |-> c.accountInfo]
ErrorTextRaw(msg) == msg \* variant: no fallback text
ErrorText(msg) == IF Truthy(msg) THEN msg ELSE "Failed to fetch account data"

\* the state machine value the presentation layer sees (lines 20-21, 16)
Presentation ==
  IF loading THEN "Loading"
  ELSE IF error # "" THEN "Failed"
  ELSE IF accountData # Null THEN "Ready"
  ELSE "Idle"

(* ---- one invocation of fetchAccountData: its position and its locals ---- *)
NewCall(u, t) ==
  [searchUsername |-> u,
   from |-> Presentation,      \* history: the state it was started from
   pc |-> "racing",            \* racing (37), gathering (49), inserting (70), returned
   primary |-> "pending",      \* the promise of getAccountInfo
   timer |-> "armed",          \* the rejecting timer of line 40
   timeout |-> "armed",        \* the aborting timer of line 33
   deadline |-> t + TimeoutMs,
   sec |-> [k \in SecNames |-> "unissued"],
   accountInfo |-> Null,
   res |-> [k \in SecNames |-> << >>],
   row |-> Null,               \* the row handed to the insert of line 70
   caught |-> << >>,           \* the message of the error caught at line 75, once one is
   writes |-> << >>]           \* history: the writes it made to the collections

Init ==
  /\ username = ""
  /\ accountData = Null
  /\ rewardHistory = << >>
  /\ delegations = << >>
  /\ walletHistory = << >>
  /\ loading = FALSE
  /\ error = ""
  /\ localStorage = << >>
  /\ searches = << >>
  /\ calls = << >>
  /\ submits = 0
  /\ now = 0

Calls == DOMAIN calls
SetCall(i, c) == calls' = [calls EXCEPT ![i] = c]

(* ---- the blocks of fetchAccountData ---- *)
\* lines 25-26
EnterLoading == loading' = TRUE /\ error' = ""

\* variant: the lists are added to what is shown instead of replacing it
SetAllAppends(a, r, d, w) ==
  /\ accountData' = a
  /\ rewardHistory' = rewardHistory \o r
  /\ delegations' = delegations \o d
  /\ walletHistory' = walletHistory \o w

\* lines 56-59
SetAll(a, r, d, w) ==
  /\ accountData' = a
  /\ rewardHistory' = r
  /\ delegations' = d
  /\ walletHistory' = w

\* variant: the catch block resets the account only
CatchKeepsLists(msg) ==
  /\ error' = ErrorText(msg)
  /\ accountData' = Null
  /\ UNCHANGED <<rewardHistory, delegations, walletHistory>>

\* lines 75-80
CatchBlock(msg) ==
  /\ error' = ErrorText(msg)
  /\ SetAll(Null, << >>, << >>, << >>)

\* variant: line 82 left out
ExitLoadingSkipped == UNCHANGED loading

\* line 82
ExitLoading == loading' = FALSE

\* line 83 and the return
FinallyBlock(c) ==
  [c EXCEPT !.pc = "returned",
            !.timeout = IF @ = "armed" THEN "cleared" ELSE @]

\* a throw inside the try block: catch, then finally
Throws(i, c, msg) ==
  /\ CatchBlock(msg)
  /\ ExitLoading
  /\ SetCall(i, FinallyBlock([c EXCEPT !.caught = <<msg>>, !.writes = Append(@, "clear")]))

\* the try block ends normally: finally only
Returns(i, c) ==
  /\ ExitLoading
  /\ SetCall(i, FinallyBlock(c))

\* a promise nobody awaits any more settles: nothing but the promise changes
Ignored(i, c) ==
  /\ SetCall(i, c)
  /\ UNCHANGED <<present, loading, error>>

\* variant: the collections are reset when a lookup starts
FetchAccountDataResets(searchUsername) ==
  /\ EnterLoading
  /\ calls' = Append(calls, NewCall(searchUsername, now))
  /\ SetAll(Null, << >>, << >>, << >>)
  /\ UNCHANGED <<localStorage, searches>>

\* lines 24-42, up to the await of the race
FetchAccountData(searchUsername) ==
  /\ EnterLoading
  /\ calls' = Append(calls, NewCall(searchUsername, now))
  /\ UNCHANGED <<present, localStorage, searches>>

\* lines 87-92
HandleSearch ==
  /\ submits < MaxSubmits
  /\ submits' = submits + 1
  /\ IF Truthy(username)
       THEN FetchAccountData(username)
       ELSE UNCHANGED <<present, loading, error, localStorage, searches, calls>>
  /\ UNCHANGED <<username, now>>

\* line 334, onChange of the input
SetUsername(u) ==
  /\ submits < MaxSubmits
  /\ u # username
  /\ username' = u
  /\ UNCHANGED <<present, loading, error, localStorage, searches, calls, submits, now>>

\* lines 48-53: the three secondary fetches are issued
IssueSecondary(c, a) ==
  [c EXCEPT !.pc = "gathering", !.accountInfo = a,
            !.sec = [k \in SecNames |-> "pending"]]

\* variant: the result is acted on whenever it arrives, raced or not
AccountInfoResolvesLate(i, found) ==
  /\ calls[i].primary = "pending"
  /\ LET c == [calls[i] EXCEPT !.primary = "settled"]
         a == IF found THEN AccountOf(c.searchUsername) ELSE Null
     IN IF a = Null
          THEN Throws(i, c, "Account not found")
          ELSE /\ SetCall(i, IssueSecondary(c, a))
               /\ UNCHANGED <<present, loading, error>>
  /\ UNCHANGED <<username, localStorage, searches, submits, now>>

\* variant: the test of line 44 left out
AccountInfoResolvesUntested(i, found) ==
  /\ calls[i].primary = "pending"
  /\ LET c == [calls[i] EXCEPT !.primary = "settled"]
         a == IF found THEN AccountOf(c.searchUsername) ELSE Null
     IN IF calls[i].pc = "racing"
          THEN /\ SetCall(i, IssueSecondary(c, a))
               /\ UNCHANGED <<present, loading, error>>
          ELSE Ignored(i, c)
  /\ UNCHANGED <<username, localStorage, searches, submits, now>>

\* getAccountInfo resolves (with an account, or with nothing): lines 37-53
AccountInfoResolves(i, found) ==
  /\ calls[i].primary = "pending"
  /\ LET c == [calls[i] EXCEPT !.primary = "settled"]
         a == IF found THEN AccountOf(c.searchUsername) ELSE Null
     IN IF calls[i].pc = "racing"
          THEN IF a = Null
                 THEN Throws(i, c, "Account not found")
                 ELSE /\ SetCall(i, IssueSecondary(c, a))
                      /\ UNCHANGED <<present, loading, error>>
          ELSE Ignored(i, c)
  /\ UNCHANGED <<username, localStorage, searches, submits, now>>

\* getAccountInfo rejects: lines 37, 75-84
AccountInfoRejects(i, msg) ==
  /\ calls[i].primary = "pending"
  /\ LET c == [calls[i] EXCEPT !.primary = "settled"]
     IN IF calls[i].pc = "racing" THEN Throws(i, c, msg) ELSE Ignored(i, c)
  /\ UNCHANGED <<username, localStorage, searches, submits, now>>

\* variant: getAccountInfo awaited alone, the timer's rejection raced against nothing
TimerFiresUnraced(i) ==
  /\ calls[i].timer = "armed"
  /\ \A j \in Calls : j < i => calls[j].timer = "fired"
  /\ now' = IF now < calls[i].deadline THEN calls[i].deadline ELSE now
  /\ Ignored(i, [calls[i] EXCEPT !.timer = "fired",
                                 !.timeout = IF @ = "armed" THEN "fired" ELSE @])
  /\ UNCHANGED <<username, localStorage, searches, submits>>

\* the clock reaches the deadline of the timers of lines 33 and 40 (same delay, set
\* in this order) and they run; timers run in the order of their deadlines
TimerFires(i) ==
  /\ calls[i].timer = "armed"
  /\ \A j \in Calls : j < i => calls[j].timer = "fired"
  /\ now' = IF now < calls[i].deadline THEN calls[i].deadline ELSE now
  /\ LET c == [calls[i] EXCEPT !.timer = "fired",
                               !.timeout = IF @ = "armed" THEN "fired" ELSE @]
     IN IF calls[i].pc = "racing" THEN Throws(i, c, "Request timeout") ELSE Ignored(i, c)
  /\ UNCHANGED <<username, localStorage, searches, submits>>

\* line 62: the write of the cache entry
SetItem(c) ==
  localStorage' = (CacheKey(c.searchUsername) :> JSONStringify(CacheEntry(c, now)))
                  @@ localStorage

\* variant: only the call issued last may populate the collections
CommitFenced(i, c, fault) ==
  LET d == [c EXCEPT !.writes = Append(@, "populate")]
  IN IF fault = "none"
       THEN /\ IF i = Len(calls)
                 THEN SetAll(c.accountInfo, c.res["rewards"], c.res["delegations"],
                             c.res["transactions"])
                 ELSE UNCHANGED present
            /\ SetItem(c)
            /\ SetCall(i, [d EXCEPT !.pc = "inserting", !.row = AuditRow(c, now)])
            /\ UNCHANGED <<loading, error>>
       ELSE /\ Throws(i, d, fault)
            /\ UNCHANGED localStorage

\* lines 55-74, up to the await of the insert; fault is what setItem throws, if it does
Commit(i, c, fault) ==
  LET d == [c EXCEPT !.writes = Append(@, "populate")]
  IN IF fault = "none"
       THEN /\ SetAll(c.accountInfo, c.res["rewards"], c.res["delegations"],
                      c.res["transactions"])
            /\ SetItem(c)
            /\ SetCall(i, [d EXCEPT !.pc = "inserting", !.row = AuditRow(c, now)])
            /\ UNCHANGED <<loading, error>>
       ELSE /\ Throws(i, d, fault)
            /\ UNCHANGED localStorage

\* variant: the first result is enough (Promise.any in place of Promise.all)
AnyResolved(c) == \E k \in SecNames : c.sec[k] = "resolved"

\* Promise.all of line 49 has all three results
AllResolved(c) == \A k \in SecNames : c.sec[k] = "resolved"

\* one of the three secondary fetches resolves: lines 49-74
SecondaryResolves(i, k, fault) ==
  /\ calls[i].sec[k] = "pending"
  /\ LET c == [calls[i] EXCEPT !.sec[k] = "resolved",
                               !.res[k] = SecData(k, calls[i].searchUsername)]
     IN IF calls[i].pc = "gathering" /\ AllResolved(c)
          THEN Commit(i, c, fault)
          ELSE /\ fault = "none"
               /\ Ignored(i, IF calls[i].pc = "gathering" THEN c
                              ELSE [calls[i] EXCEPT !.sec[k] = "resolved"])
               /\ UNCHANGED localStorage
  /\ UNCHANGED <<username, searches, submits, now>>

\* one of the three secondary fetches rejects: lines 49, 75-84
SecondaryRejects(i, k, msg) ==
  /\ calls[i].sec[k] = "pending"
  /\ LET c == [calls[i] EXCEPT !.sec[k] = "rejected"]
     IN IF calls[i].pc = "gathering" THEN Throws(i, c, msg) ELSE Ignored(i, c)
  /\ UNCHANGED <<username, localStorage, searches, submits, now>>

\* variant: the insert is sent again after it was stored
InsertResolvesTwice(i, stored) ==
  /\ calls[i].pc = "inserting"
  /\ searches' = IF stored THEN Append(Append(searches, calls[i].row), calls[i].row)
                 ELSE searches
  /\ Returns(i, calls[i])
  /\ UNCHANGED <<present, error, username, localStorage, submits, now>>

\* the insert of line 70 resolves, with the row stored or with an error result
InsertResolves(i, stored) ==
  /\ calls[i].pc = "inserting"
  /\ searches' = IF stored THEN Append(searches, calls[i].row) ELSE searches
  /\ Returns(i, calls[i])
  /\ UNCHANGED <<present, error, username, localStorage, submits, now>>

\* the insert of line 70 rejects: lines 70, 75-84
InsertRejects(i, msg) ==
  /\ calls[i].pc = "inserting"
  /\ Throws(i, calls[i], msg)
  /\ UNCHANGED <<username, localStorage, searches, submits, now>>

Next ==
  \/ HandleSearch
  \/ \E u \in Usernames : SetUsername(u)
  \/ \E i \in Calls, found \in BOOLEAN : AccountInfoResolves(i, found)
  \/ \E i \in Calls, msg \in ProviderFaults : AccountInfoRejects(i, msg)
  \/ \E i \in Calls : TimerFires(i)
  \/ \E i \in Calls, k \in SecNames, fault \in {"none"} \cup StorageFaults :
       SecondaryResolves(i, k, fault)
  \/ \E i \in Calls, k \in SecNames, msg \in ProviderFaults : SecondaryRejects(i, k, msg)
  \/ \E i \in Calls, stored \in BOOLEAN : InsertResolves(i, stored)
  \/ \E i \in Calls, msg \in InsertFaults : InsertRejects(i, msg)

Spec == Init /\ [][Next]_vars

(* ---- scheduling: the clock runs and a timer that ran out is served, and the
        secondary fetches and the insert settle; getAccountInfo may never ---- *)
SecondarySettles(i) ==
  \/ \E k \in SecNames, fault \in {"none"} \cup StorageFaults : SecondaryResolves(i, k, fault)
  \/ \E k \in SecNames, msg \in ProviderFaults : SecondaryRejects(i, k, msg)
InsertSettles(i) ==
  \/ \E stored \in BOOLEAN : InsertResolves(i, stored)
  \/ \E msg \in InsertFaults : InsertRejects(i, msg)
Fairness ==
  /\ \A i \in 1..MaxSubmits :
       /\ WF_vars(i \in Calls /\ TimerFires(i))
       /\ WF_vars(i \in Calls /\ SecondarySettles(i))
       /\ WF_vars(i \in Calls /\ InsertSettles(i))
SpecLive == Spec /\ Fairness

(* ---- the properties ---- *)
Started(i) == i \in Calls
Returned(i) == i \in Calls /\ calls[i].pc = "returned"
Empty ==
  /\ accountData = Null
  /\ rewardHistory = << >>
  /\ delegations = << >>
  /\ walletHistory = << >>
\* the collections are the four values delivered to the call c
Shows(c) ==
  /\ accountData = c.accountInfo
  /\ rewardHistory = c.res["rewards"]
  /\ delegations = c.res["delegations"]
  /\ walletHistory = c.res["transactions"]
Populated(c) == c.writes # << >> /\ c.writes[1] = "populate"
FallbackText == "Failed to fetch account data"

\* C1: the four collections are all those delivered to one call, or all empty
C1_AllFromOneCallOrEmpty ==
  Empty \/ \E i \in Calls : Populated(calls[i]) /\ Shows(calls[i])

\* a call for one user has populated the collections while an earlier call for
\* another user is still waiting for its secondary fetches
C1_Witness ==
  /\ Len(calls) = 2
  /\ calls[1].pc = "gathering"
  /\ calls[2].pc = "inserting"
  /\ calls[1].searchUsername # calls[2].searchUsername
  /\ Shows(calls[2])

\* C2: when the insert into 'searches' fails (no row is stored) the collections
\* and the error message stay as the call committed them
C2_InsertFaultKeepsReady ==
  [][\A i \in Calls :
       (calls[i].pc = "inserting" /\ calls'[i].pc = "returned" /\ searches' = searches)
         => (present' = present /\ error' = error)]_vars

\* C3: when the last of the three secondary fetches resolves the call commits and
\* goes on to the insert with its collections shown and the error message
\* untouched, also when the cache write throws
C3_CacheFaultSwallowed ==
  [][\A i \in Calls :
       (calls[i].pc = "gathering" /\ AllResolved(calls'[i]))
         => (calls'[i].pc = "inserting" /\ error' = error
             /\ accountData' = calls'[i].accountInfo
             /\ rewardHistory' = calls'[i].res["rewards"]
             /\ delegations' = calls'[i].res["delegations"]
             /\ walletHistory' = calls'[i].res["transactions"])]_vars

\* a secondary fetch of call i rejects in this step while Promise.all is awaited
SecondaryFaultStep(i) ==
  /\ calls[i].pc = "gathering"
  /\ \E k \in SecNames : calls[i].sec[k] = "pending" /\ calls'[i].sec[k] = "rejected"

\* C4 as stated: a secondary fault ends the call with the fault's own message shown
\* and all four collections empty
C4_SecondaryFaultShowsItsMessage ==
  [][\A i \in Calls :
       SecondaryFaultStep(i)
         => (/\ calls'[i].caught # << >>
             /\ error' = calls'[i].caught[1]
             /\ Empty')]_vars

\* C4 amended: a secondary fault ends the call with the fault's message shown, or
\* the fallback text when the message is empty, all four collections empty and
\* nothing of the call ever written to them
C4_SecondaryFaultFailsAndClears ==
  [][\A i \in Calls :
       SecondaryFaultStep(i)
         => (/\ calls'[i].caught # << >>
             /\ error' = (IF calls'[i].caught[1] # "" THEN calls'[i].caught[1]
                          ELSE FallbackText)
             /\ Empty'
             /\ calls'[i].pc = "returned"
             /\ calls'[i].writes = <<"clear">>)]_vars

\* a call whose account was found and one of whose secondary fetches had resolved
\* has failed on another one, with no message, and the fallback text is shown
C4_Witness ==
  \E i \in Calls :
    /\ Returned(i)
    /\ calls[i].accountInfo # Null
    /\ calls[i].caught = <<"">>
    /\ \E k \in SecNames : calls[i].sec[k] = "rejected"
    /\ \E k \in SecNames : calls[i].sec[k] = "resolved"
    /\ calls[i].writes = <<"clear">>
    /\ Empty
    /\ error = FallbackText

\* C5: the timer running out while the race is awaited ends the call with
\* 'Request timeout' shown and all four collections empty
C5_TimeoutFailsAndClears ==
  [][\A i \in Calls :
       (calls[i].pc = "racing" /\ calls[i].timer = "armed" /\ calls'[i].timer = "fired")
         => (/\ error' = "Request timeout"
             /\ Empty'
             /\ calls'[i].pc = "returned"
             /\ calls'[i].caught = <<"Request timeout">>)]_vars

\* a call timed out with its account fetch still pending, after another call had
\* populated the collections
C5_Witness ==
  \E i, j \in Calls :
    /\ Returned(i) /\ Returned(j)
    /\ calls[i].caught = <<"Request timeout">>
    /\ calls[i].primary = "pending"
    /\ calls[j].writes = <<"populate">>
    /\ Empty
    /\ error = "Request timeout"

\* C6: a call writes the collections once, a populate or a clear, and not before
\* its fetches are through
C6_OneWritePerCall ==
  \A i \in Calls :
    /\ calls[i].writes \in {<< >>, <<"populate">>, <<"clear">>}
    /\ calls[i].pc \in {"racing", "gathering"} => calls[i].writes = << >>
    /\ calls[i].pc = "returned" => calls[i].writes # << >>

\* C7: every started lookup eventually runs its finally block and sets loading to false
C7_EveryLookupLeavesLoading ==
  \A i \in 1..MaxSubmits : Started(i) ~> (Returned(i) /\ ~loading)

\* a call has returned by its timer, its account fetch never having settled
C7_Witness ==
  \E i \in Calls :
    /\ Returned(i)
    /\ calls[i].primary = "pending"
    /\ calls[i].timer = "fired"
    /\ ~loading

\* C8: the commit of a call for u shows exactly what the provider holds for u and
\* stores the same four values with the time of the write under 'hive_' + u
C8_CommitShowsAndCaches ==
  [][\A i \in Calls :
       (calls[i].pc = "gathering" /\ calls'[i].pc = "inserting")
         => LET u == calls[i].searchUsername
            IN /\ accountData' = AccountOf(u)
               /\ rewardHistory' = RewardsOf(u)
               /\ delegations' = DelegationsOf(u)
               /\ walletHistory' = WalletOf(u)
               /\ ("hive_" \o u) \in DOMAIN localStorage'
               /\ localStorage'["hive_" \o u] =
                    <<"json", [accountInfo |-> AccountOf(u), rewards |-> RewardsOf(u),
                               delegations |-> DelegationsOf(u),
                               transactions |-> WalletOf(u), timestamp |-> now]>>]_vars

\* a call for bob has committed: bob's data is shown and cached under hive_bob
C8_Witness ==
  \E i \in Calls :
    /\ calls[i].pc = "inserting"
    /\ calls[i].searchUsername = "bob"
    /\ Shows(calls[i])
    /\ accountData = AccountOf("bob")
    /\ "hive_bob" \in DOMAIN localStorage

\* C9: an error message is never shown together with data, and the data of a
\* call that ended well is never shown together with an error message
C9_ErrorNeverWithData ==
  /\ error # "" => Empty
  /\ \A i \in Calls :
       (Returned(i) /\ calls[i].writes = <<"populate">> /\ Shows(calls[i])) => error = ""

\* C10: a submit with an empty username starts no call and changes nothing shown
C10_EmptySubmitDoesNothing ==
  [][(submits' = submits + 1 /\ username = "")
       => UNCHANGED <<calls, loading, error, present, localStorage, searches>>]_vars

\* the form was submitted empty while the data of an earlier call is shown
C10_Witness ==
  /\ submits = 2
  /\ Len(calls) = 1
  /\ username = ""
  /\ Populated(calls[1])
  /\ Shows(calls[1])

\* the four values a call committed
Bundle(c) == <<c.accountInfo, c.res["rewards"], c.res["delegations"], c.res["transactions"]>>

\* C11: a lookup of a username commits the same bundle as an earlier lookup of that
\* username did, whatever was shown when it started
C11_SameBundleAgain ==
  [][\A i, j \in Calls :
       (/\ i < j
        /\ calls[i].searchUsername = calls[j].searchUsername
        /\ Populated(calls[i])
        /\ calls[j].pc = "gathering" /\ calls'[j].pc = "inserting")
         => present' = Bundle(calls[i])]_vars

\* the second lookup of a username, started from Ready after the first had returned,
\* has committed the bundle of the first
C11_Witness ==
  /\ Len(calls) = 2
  /\ calls[1].searchUsername = calls[2].searchUsername
  /\ calls[1].pc = "returned" /\ calls[1].writes = <<"populate">>
  /\ calls[2].from = "Ready"
  /\ calls[2].pc = "inserting"
  /\ present = Bundle(calls[1])

SomePending(c) == \E k \in SecNames : c.sec[k] = "pending"

\* C12 as stated: no call is past the secondary stage while one of its three
\* secondary fetches is still pending
C12_ResumesWhenAllSettled ==
  \A i \in Calls : calls[i].pc \in {"inserting", "returned"} => ~SomePending(calls[i])

\* C12 amended: a call that populated the collections has all three results; a
\* call past the secondary stage with a fetch still pending is one that failed,
\* without populating, on the fault of another of the three
C12_ResumesWhenAllResolvedOrOneFaults ==
  \A i \in Calls :
    /\ Populated(calls[i]) => \A k \in SecNames : calls[i].sec[k] = "resolved"
    /\ (calls[i].pc \in {"inserting", "returned"} /\ SomePending(calls[i]))
         => (/\ calls[i].pc = "returned"
             /\ \E k \in SecNames : calls[i].sec[k] = "rejected"
             /\ calls[i].writes = <<"clear">>
             /\ calls[i].caught # << >>)

\* a call has failed on the fault of one secondary fetch and cleared loading while
\* the two others are still pending
C12_Witness ==
  \E i \in Calls :
    /\ Returned(i)
    /\ Cardinality({k \in SecNames : calls[i].sec[k] = "pending"}) = 2
    /\ Cardinality({k \in SecNames : calls[i].sec[k] = "rejected"}) = 1
    /\ ~loading
    /\ Empty

\* what the last write of a call left in the four collections
Written(c) ==
  IF c.writes[Len(c.writes)] = "populate" THEN Bundle(c)
  ELSE <<Null, << >>, << >>, << >> >>
Overlapped == \E j \in Calls : calls[j].from = "Loading"

\* C13 as stated: when the last of overlapping calls settles, the collections are
\* what that call wrote
C13_LastSettledWins ==
  [][\A i \in Calls :
       (/\ Overlapped
        /\ calls[i].pc # "returned" /\ calls'[i].pc = "returned"
        /\ \A j \in Calls : j # i => calls[j].pc = "returned")
         => present' = Written(calls'[i])]_vars

\* C13 amended: the collections change only by the write of a call, and after any
\* write they are what that call wrote, whichever call was issued first
C13_LastWriteWins ==
  [][/\ \A i \in Calls :
          calls'[i].writes # calls[i].writes => present' = Written(calls'[i])
     /\ present' # present => \E i \in Calls : calls'[i].writes # calls[i].writes]_vars

\* of two overlapping calls for different users that both succeeded, the one
\* issued first populated last: its bundle is shown
C13_Witness ==
  /\ Len(calls) = 2
  /\ calls[2].from = "Loading"
  /\ calls[1].searchUsername # calls[2].searchUsername
  /\ calls[1].pc = "returned" /\ calls[1].writes = <<"populate">>
  /\ calls[2].pc = "returned" /\ calls[2].writes = <<"populate">>
  /\ present = Bundle(calls[1])

InLoading(c) == c.pc \in {"racing", "gathering"}
StartStep == Len(calls') = Len(calls) + 1

\* C15 as stated: the start of a call changes loading and error only, and while a
\* call is in Loading the collections change by nothing but its own write
C15_OnlyOwnWriteWhileLoading ==
  [][/\ StartStep => (present' = present /\ loading' = TRUE /\ error' = ""
                      /\ UNCHANGED <<localStorage, searches>>)
     /\ \A i \in Calls :
          (InLoading(calls[i]) /\ calls'[i].writes = calls[i].writes)
            => present' = present]_vars

\* C15 amended: the start of a call changes loading and error only, and while a
\* call is in Loading the collections change by nothing but the write of a call,
\* its own or that of a call overlapping it
C15_OnlyWritesWhileLoading ==
  [][/\ StartStep => (present' = present /\ loading' = TRUE /\ error' = ""
                      /\ UNCHANGED <<localStorage, searches>>)
     /\ \A i \in Calls :
          (InLoading(calls[i]) /\ present' # present)
            => \E j \in Calls :
                 /\ calls'[j].writes # calls[j].writes
                 /\ present' = Written(calls'[j])]_vars

\* a call started from Ready waits for its secondary fetches, the bundle of the
\* call before it still shown
C15_Witness ==
  /\ Len(calls) = 2
  /\ calls[1].pc = "returned" /\ calls[1].writes = <<"populate">>
  /\ calls[2].from = "Ready"
  /\ calls[2].pc = "gathering"
  /\ present = Bundle(calls[1])
  /\ loading /\ error = ""

Unissued(c) == \A k \in SecNames : c.sec[k] = "unissued"

\* C16: a call fails with 'Account not found' out of the race only, clearing the
\* four collections and issuing no secondary fetch then or later; the secondary
\* fetches are issued together, out of the race, with a non-empty account in hand
C16_NotFoundIssuesNothing ==
  [][\A i \in Calls :
       /\ (calls[i].caught = << >> /\ calls'[i].caught = <<"Account not found">>)
            => (/\ calls[i].pc = "racing" /\ calls'[i].pc = "returned"
                /\ calls[i].primary = "pending" /\ calls'[i].primary = "settled"
                /\ calls'[i].accountInfo = Null
                /\ error' = "Account not found"
                /\ Empty'
                /\ Unissued(calls'[i]))
       /\ (Unissued(calls[i]) /\ ~Unissued(calls'[i]))
            => (/\ calls[i].pc = "racing" /\ calls'[i].pc = "gathering"
                /\ calls[i].primary = "pending" /\ calls'[i].primary = "settled"
                /\ calls'[i].accountInfo = AccountOf(calls[i].searchUsername)
                /\ \A k \in SecNames : calls'[i].sec[k] = "pending")
       /\ (Unissued(calls[i]) /\ calls[i].pc = "returned") => Unissued(calls'[i])]_vars

\* a call started from Ready found no account: the error is shown, the collections
\* are cleared and none of its secondary fetches was issued
C16_Witness ==
  \E i \in Calls :
    /\ calls[i].from = "Ready"
    /\ calls[i].pc = "returned"
    /\ calls[i].caught = <<"Account not found">>
    /\ Unissued(calls[i])
    /\ error = "Account not found"
    /\ Empty

CommitStep(i) == calls[i].pc = "gathering" /\ calls'[i].pc = "inserting"

\* C17: the cache is written and the insert is issued by the commit of a call only,
\* which a call passes once, with its four results and after populating; the table
\* grows by the one row of a call whose insert settles; a call that failed before
\* its commit has no row
C17_CacheAndAuditOncePerCommit ==
  [][/\ localStorage' # localStorage => \E i \in Calls : CommitStep(i)
     /\ searches' # searches =>
          \E i \in Calls : /\ calls[i].pc = "inserting" /\ calls'[i].pc = "returned"
                           /\ searches' = Append(searches, calls[i].row)
     /\ \A i \in Calls :
          /\ calls'[i].row # calls[i].row => CommitStep(i)
          /\ CommitStep(i) =>
               (/\ \A k \in SecNames : calls'[i].sec[k] = "resolved"
                /\ calls'[i].accountInfo # Null
                /\ calls'[i].writes = <<"populate">>
                /\ present' = Bundle(calls'[i])
                /\ ("hive_" \o calls[i].searchUsername) \in DOMAIN localStorage'
                /\ calls'[i].row # Null)
          /\ calls[i].pc \in {"inserting", "returned"} => calls'[i].pc # "gathering"
          /\ (calls'[i].writes # << >> /\ calls'[i].writes[1] = "clear")
               => calls'[i].row = Null]_vars

\* of two calls for different users one failed and one went through: one cache
\* entry and one row, both of the call that went through
C17_Witness ==
  \E i, j \in Calls :
    /\ calls[i].searchUsername # calls[j].searchUsername
    /\ Returned(i) /\ calls[i].writes = <<"populate">>
    /\ Returned(j) /\ calls[j].writes = <<"clear">> /\ calls[j].row = Null
    /\ searches = <<calls[i].row>>
    /\ DOMAIN localStorage = {"hive_" \o calls[i].searchUsername}

\* C18: loading is true whenever a call has been started and has not yet returned
C18_LoadingWhileInFlight ==
  (\E i \in Calls : calls[i].pc # "returned") => loading
====
